---- MODULE Spec2Model ----
(***************************************************************************)
(* The chat relay of the portfolio site: the Express route POST /api/chat  *)
(* (src/server/index.js) and the serverless handler (api/chat.js, kept as  *)
(* src/unnamed/part_000).  One request is followed from its arrival to its *)
(* response; the hosted model endpoint is an external collaborator whose   *)
(* answer is a nondeterministic input.  The handlers share no mutable      *)
(* state (HF_API_KEY is read, never written), so requests in flight at the *)
(* same time do not affect one another and one request at a time is        *)
(* followed.                                                               *)
(*                                                                         *)
(* The second half of the module is the browser side (src/js/scripts.js):  *)
(* the chat widget, its typing animation, the hero role typing effect, the *)
(* canvas background animation, debounce and gatherProfileContext.  Each   *)
(* has its own specification; the parts a specification does not run stay  *)
(* in their start state.                                                   *)
(*                                                                         *)
(* Texts are sequences of one-character strings, so that trim, the regular *)
(* expression replacements and the template literals are computed the way  *)
(* the JavaScript computes them.  A literal piece of a template is kept as *)
(* one element of the sequence.                                            *)
(***************************************************************************)
EXTENDS Integers, Sequences, FiniteSets, TLC

\* ------------------------------------------------------------------ bounds

\* Longest history array of a request.
MaxHist == 6
\* Longest prompt, in characters.
MaxPrompt == 2
\* Longest model output, in tokens of ModelTokens.
MaxTok == 4

\* ------------------------------------------------------- program constants

\* history.slice(-5) of the Express route.
HistoryLimit == 5

\* ------------------------------------------------------------ text helpers

\* The backtick character (a name: the character itself cannot be written in a
\* string of the module).
BT == "BACKTICK"
SP == " "
TAB == "\t"
NL == "\n"
CR == "\r"

\* The characters String.prototype.trim removes that occur in the model.
IsWhitespace(c) == c \in {SP, TAB, NL, CR}

RECURSIVE TrimStart(_)
TrimStart(t) ==
  IF t = <<>> THEN <<>>
  ELSE IF IsWhitespace(Head(t)) THEN TrimStart(Tail(t))
  ELSE t

RECURSIVE TrimEnd(_)
TrimEnd(t) ==
  IF t = <<>> THEN <<>>
  ELSE IF IsWhitespace(t[Len(t)]) THEN TrimEnd(SubSeq(t, 1, Len(t) - 1))
  ELSE t

\* String.prototype.trim
Trim(t) == TrimEnd(TrimStart(t))

\* Whether three backticks start at position i of t.
FenceAt(t, i) ==
  /\ i >= 1
  /\ i + 2 <= Len(t)
  /\ t[i] = BT /\ t[i + 1] = BT /\ t[i + 2] = BT

\* t.replace(/FENCE[\s\S]*?FENCE/g, '') with FENCE three backticks: at an
\* opening fence the lazy body ends at the nearest closing fence; a fence
\* with no closing fence is kept.
RECURSIVE RemoveFencedBlocks(_)
RemoveFencedBlocks(t) ==
  IF t = <<>> THEN <<>>
  ELSE
    LET closes == {j \in 4..Len(t) : FenceAt(t, j)}
    IN IF FenceAt(t, 1) /\ closes # {}
       THEN LET j == CHOOSE k \in closes : \A m \in closes : k <= m
            IN RemoveFencedBlocks(SubSeq(t, j + 3, Len(t)))
       ELSE <<Head(t)>> \o RemoveFencedBlocks(Tail(t))

\* The mutant of RemoveInlineBackticks: only the first pair is unwrapped
\* (the replace without its g flag).
RECURSIVE RemoveInlineBackticksFirstOnly(_)
RemoveInlineBackticksFirstOnly(t) ==
  IF t = <<>> THEN <<>>
  ELSE
    LET closes == {j \in 2..Len(t) : t[j] = BT}
    IN IF Head(t) = BT /\ closes # {}
       THEN LET j == CHOOSE k \in closes : \A m \in closes : k <= m
            IN SubSeq(t, 2, j - 1) \o SubSeq(t, j + 1, Len(t))
       ELSE <<Head(t)>> \o RemoveInlineBackticksFirstOnly(Tail(t))

\* t.replace(/BT([^BT]*)BT/g, '$1') with BT the backtick: a backtick and the
\* next backtick are dropped and the text between them kept; a last
\* unpaired backtick stays.
RECURSIVE RemoveInlineBackticks(_)
RemoveInlineBackticks(t) ==
  IF t = <<>> THEN <<>>
  ELSE
    LET closes == {j \in 2..Len(t) : t[j] = BT}
    IN IF Head(t) = BT /\ closes # {}
       THEN LET j == CHOOSE k \in closes : \A m \in closes : k <= m
            IN SubSeq(t, 2, j - 1) \o RemoveInlineBackticks(SubSeq(t, j + 1, Len(t)))
       ELSE <<Head(t)>> \o RemoveInlineBackticks(Tail(t))

\* t.replace(/\r\n/g, '\n').replace(/\r/g, '\n')
RECURSIVE NormalizeLineEndings(_)
NormalizeLineEndings(t) ==
  IF t = <<>> THEN <<>>
  ELSE IF Head(t) = CR /\ Len(t) >= 2 /\ t[2] = NL
       THEN <<NL>> \o NormalizeLineEndings(SubSeq(t, 3, Len(t)))
  ELSE IF Head(t) = CR THEN <<NL>> \o NormalizeLineEndings(Tail(t))
  ELSE <<Head(t)>> \o NormalizeLineEndings(Tail(t))

\* The length of the longest prefix of t whose characters are all in S.
RECURSIVE RunLength(_, _)
RunLength(t, S) ==
  IF t = <<>> \/ Head(t) \notin S THEN 0 ELSE 1 + RunLength(Tail(t), S)

\* t.replace(/\n{3,}/g, '\n\n')
RECURSIVE CollapseNewlines(_)
CollapseNewlines(t) ==
  IF t = <<>> THEN <<>>
  ELSE LET n == RunLength(t, {NL})
       IN IF n >= 3
          THEN <<NL, NL>> \o CollapseNewlines(SubSeq(t, n + 1, Len(t)))
          ELSE <<Head(t)>> \o CollapseNewlines(Tail(t))

\* t.replace(/[ \t]{2,}/g, ' ')
RECURSIVE CollapseSpaces(_)
CollapseSpaces(t) ==
  IF t = <<>> THEN <<>>
  ELSE LET n == RunLength(t, {SP, TAB})
       IN IF n >= 2
          THEN <<SP>> \o CollapseSpaces(SubSeq(t, n + 1, Len(t)))
          ELSE <<Head(t)>> \o CollapseSpaces(Tail(t))

\* sanitizeReplyText of the Express route.
sanitizeReplyText(text) ==
  IF text = <<>> THEN <<>>
  ELSE Trim(CollapseSpaces(CollapseNewlines(NormalizeLineEndings(
         RemoveInlineBackticks(RemoveFencedBlocks(text))))))

\* ------------------------------------------------------------ JS values

\* A JavaScript value of a request or of the model's answer: its type and,
\* for a string or an array, its value.
Undefined == [t |-> "undefined", v |-> <<>>]
Null == [t |-> "null", v |-> <<>>]
Number == [t |-> "number", v |-> <<>>]
Object == [t |-> "object", v |-> <<>>]
Str(text) == [t |-> "string", v |-> text]
Array(items) == [t |-> "array", v |-> items]

\* A destructuring default: { x = d } takes d for undefined only.
Default(x, d) == IF x.t = "undefined" THEN d ELSE x

\* ------------------------------------------------------------ literals

SystemPromptExpress == <<"You are a professional assistant for Athar Sayed's portfolio and resume. ...">>
SystemPromptServerless == <<"You are a professional, recruiter-facing AI assistant specialized in Athar Sayed's resume and portfolio. ...">>
NoReply == <<"N", "o", " ", "r", "e", "p", "l", "y">>
IDontKnow == <<"I", " ", "d", "o", "n", "'", "t", " ", "k", "n", "o", "w", ".">>
\* The text the Express route formats from a context object with no fields.
FormattedContextObject == <<"Name: Athar Sayed\nSummary: N/A\nEducation: N/A\nExperience: N/A\nProjects: N/A\nSkills: N/A\nCertifications: N/A">>

\* ------------------------------------------------------------ inputs

Roles == {"user", "assistant", "system"}
Methods == {"POST", "GET", "PUT"}

\* The environment's HF_API_KEY: not set, set to the empty string, or set.
KeyValues == {Undefined, Str(<<>>), Str(<<"hf_key">>)}

RECURSIVE TextsUpTo(_, _)
\* The texts made of at most n pieces of Pieces.
TextsUpTo(Pieces, n) ==
  IF n = 0 THEN {<<>>}
  ELSE LET shorter == TextsUpTo(Pieces, n - 1)
       IN shorter \cup {s \o p : s \in shorter, p \in Pieces}

PromptValues ==
  {Undefined, Number} \cup {Str(p) : p \in TextsUpTo({<<"q">>, <<SP>>}, MaxPrompt)}

ContextValues == {Undefined, Object, Str(<<>>), Str(<<"c">>)}

\* The history arrays of length n: every choice of roles, the content of an
\* entry naming its place in the array.
HistoriesOfLength(n) ==
  {Array([i \in 1..n |-> [role |-> f[i], content |-> <<ToString(i)>>]]) :
     f \in [1..n -> Roles]}

HistoryValues(maxLen) ==
  {Undefined, Null, Number} \cup UNION {HistoriesOfLength(n) : n \in 0..maxLen}

NoBody == [present |-> FALSE, prompt |-> Undefined, context |-> Undefined,
           history |-> Undefined]

\* The request bodies: every prompt and context with the short histories,
\* and every history up to MaxHist with one prompt and context.
RequestBodies ==
  {NoBody}
  \cup {[present |-> TRUE, prompt |-> p, context |-> c, history |-> h] :
          p \in PromptValues, c \in ContextValues, h \in HistoryValues(1)}
  \cup {[present |-> TRUE, prompt |-> Str(<<"q">>), context |-> Str(<<"c">>),
         history |-> h] : h \in HistoryValues(MaxHist)}

\* A few request bodies, for the specification that sweeps the model's output.
FewRequestBodies ==
  {[present |-> TRUE, prompt |-> Str(<<"q">>), context |-> Str(<<"c">>),
    history |-> h] : h \in HistoriesOfLength(1)}

\* What the model endpoint does with a request: fetch rejects, or resolves
\* with a status and a body that is delivered in full; an OK body is JSON
\* with choices[0].message.content = content, or is not JSON.
Rejected(msg) ==
  [rejected |-> TRUE, message |-> msg, status |-> 0, text |-> "",
   json |-> FALSE, content |-> Undefined]
Answered(status, text) ==
  [rejected |-> FALSE, message |-> "", status |-> status, text |-> text,
   json |-> FALSE, content |-> Undefined]
Completion(content) ==
  [rejected |-> FALSE, message |-> "", status |-> 200, text |-> "",
   json |-> TRUE, content |-> content]

ModelTokens == {<<"a">>, <<BT>>, <<BT, BT, BT>>, <<SP>>, <<TAB>>, <<NL>>, <<CR>>}

FailureResults ==
  {Rejected("fetch failed")}
  \cup {Answered(st, tx) : st \in {429, 503}, tx \in {"", "Model is overloaded"}}
  \cup {Answered(200, "<html>gateway</html>")}

\* A few answers of the model endpoint, for the specification that sweeps
\* the requests.
FewResults ==
  FailureResults
  \cup {Completion(c) : c \in {Undefined, Number, Str(<<>>), Str(<<SP>>),
                               Str(<<"a">>), Str(<<BT, "a", BT>>)}}

ModelResults ==
  FailureResults
  \cup {Completion(Undefined), Completion(Number)}
  \cup {Completion(Str(x)) : x \in TextsUpTo(ModelTokens, MaxTok)}

\* ------------------------------------------------------------ state

VARIABLES
  hfApiKey,        \* process.env.HF_API_KEY
  pc,              \* "idle", "awaiting" (the handler is at await fetch), "responded"
  handler,         \* which handler runs the request: "express", "serverless", "none"
  req,             \* the request: its method and body
  fetched,         \* the requests sent to the model endpoint: their messages lists
  upstreamResult,  \* what the model endpoint did with the request
  res              \* the response: status (0: none yet), headers, body

\* The variables of the relay.
relayVars == <<hfApiKey, pc, handler, req, fetched, upstreamResult, res>>

VARIABLES
  convo,           \* the widget's conversation state: history, booted, pendingRequest
  terminal,        \* the widget's terminal: active (open), disabled (terminalInput.disabled)
  bubbles,         \* every message bubble created, in creation order
  inflight,        \* the chat requests sent and not yet answered
  delivered,       \* the answer the widget handled last
  roleTyping,      \* the hero role typing effect
  signal,          \* the canvas background animation
  debounced,       \* a listener made by debounce(func, wait)
  profile          \* the page sections gatherProfileContext reads, and its result

\* The variables of the chat widget.
widgetVars == <<convo, terminal, bubbles, inflight, delivered>>

\* The variables of the browser side.
browserVars == <<widgetVars, roleTyping, signal, debounced, profile>>

vars == <<relayVars, browserVars>>

NoRequest == [method |-> "", body |-> NoBody]
NoResult == Rejected("")
NoResponse == [status |-> 0, headers |-> {}, body |-> [none |-> TRUE]]

\* res.status(status).json(body)
Json(status, body) == [status |-> status, headers |-> {}, body |-> body]

\* ------------------------------------------------- pieces of the handlers

\* The mutant of KeyMissing: only null counts as missing.
KeyMissingNullOnly(key) == key.t = "null"

\* !HF_API_KEY
KeyMissing(key) == key.t = "undefined" \/ (key.t = "string" /\ key.v = <<>>)

\* The mutant of MethodNotAllowed: only GET is refused.
MethodNotAllowedGetOnly(method) == method = "GET"

\* req.method !== 'POST'
MethodNotAllowed(method) == method # "POST"

\* The mutant of PromptBlank: the prompt is not trimmed.
PromptBlankUntrimmed(prompt) == prompt = <<>>

\* !prompt.trim()
PromptBlank(prompt) == Trim(prompt) = <<>>

\* The mutant of LastEntries: the first five entries, slice(0, 5).
LastEntriesFromStart(h) ==
  SubSeq(h, 1, IF Len(h) < HistoryLimit THEN Len(h) ELSE HistoryLimit)

\* (history || []).slice(-5)
LastEntries(h) ==
  SubSeq(h, IF Len(h) > HistoryLimit THEN Len(h) - HistoryLimit + 1 ELSE 1, Len(h))

\* The mutant of ForwardedRole: the entry's role is passed on as it is.
ForwardedRoleUnchanged(role) == role

\* h.role === 'user' ? 'user' : 'assistant'
ForwardedRole(role) == IF role = "user" THEN "user" ELSE "assistant"

\* The messages a handler pushes for the history entries h.
ForwardedTurns(h) ==
  [i \in 1..Len(h) |-> [role |-> ForwardedRole(h[i].role), content |-> h[i].content]]

\* The last message of the Express route.
ExpressUserContent(contextText, prompt) ==
  <<"RESUME/PROFILE CONTEXT:\n">> \o contextText \o <<"\n\n---\n\nQUESTION: ">>
    \o prompt \o <<"\n\nANSWER (use only context above):">>

\* The last message of the serverless handler.
ServerlessUserContent(context, prompt) ==
  IF context # <<>>
  THEN <<"Resume Context (use this only):\n\n">> \o context
         \o <<"\n\nUser Question: ">> \o prompt
         \o <<"\n\nResponse (based strictly on the context above):">>
  ELSE <<"No resume context available. User Question: ">> \o prompt

\* The mutant of ResponseOk: only a 5xx status counts as a failure.
ResponseOkBelow500(result) == result.status < 500

\* response.ok
ResponseOk(result) == result.status >= 200 /\ result.status <= 299

\* The mutant of ReplyOrFallback: the sanitized reply is sent as it is.
ReplyOrFallbackNone(reply) == reply

\* if (!reply) reply = "I don't know."
ReplyOrFallback(reply) == IF reply = <<>> THEN IDontKnow ELSE reply

\* What a handler does before its await: it answers (fetch FALSE) or sends
\* messages to the model endpoint (fetch TRUE).
Respond(response) == [fetch |-> FALSE, response |-> response, messages |-> <<>>]
Fetch(messages) == [fetch |-> TRUE, response |-> NoResponse, messages |-> messages]
Throw(message) == Respond(Json(500, [error |-> message]))

\* The Express route up to its await fetch.
ExpressBeforeFetch(key, body0) ==
  IF KeyMissing(key) THEN Respond(Json(500, [error |-> "HF_API_KEY missing"]))
  ELSE
    LET body == IF body0.present THEN body0 ELSE NoBody
        prompt == Default(body.prompt, Str(<<>>))
        context == Default(body.context, Str(<<>>))
        history == Default(body.history, Array(<<>>))
        contextText ==
          IF context.t = "string" THEN context.v
          ELSE IF context.t = "object" THEN FormattedContextObject
          ELSE <<>>
    IN IF prompt.t # "string" THEN Throw("prompt.trim is not a function")
       ELSE IF PromptBlank(prompt.v)
         THEN Respond(Json(400, [error |-> "Prompt required"]))
       ELSE IF history.t \notin {"array", "null"}
         THEN Throw("(history || []).slice is not a function")
       ELSE
         LET h == IF history.t = "null" THEN <<>> ELSE history.v
         IN Fetch(<<[role |-> "system", content |-> SystemPromptExpress]>>
                    \o ForwardedTurns(LastEntries(h))
                    \o <<[role |-> "user",
                          content |-> ExpressUserContent(contextText, prompt.v)]>>)

\* The serverless handler up to its await fetch.
ServerlessBeforeFetch(key, method, body) ==
  IF MethodNotAllowed(method)
  THEN Respond([status |-> 405, headers |-> {<<"Allow", "POST">>},
                body |-> [error |-> "Method Not Allowed"]])
  ELSE IF KeyMissing(key) THEN Respond(Json(500, [error |-> "HF_API_KEY missing"]))
  ELSE IF ~body.present
    THEN Throw("Cannot destructure property 'prompt' of 'req.body' as it is undefined.")
  ELSE
    LET prompt == Default(body.prompt, Str(<<>>))
        context == Default(body.context, Str(<<>>))
        history == Default(body.history, Array(<<>>))
    IN IF prompt.t # "string" THEN Throw("prompt.substring is not a function")
       ELSE IF context.t # "string" THEN Throw("context.substring is not a function")
       ELSE IF history.t = "null"
         THEN Throw("Cannot read properties of null (reading 'length')")
       ELSE IF history.t # "array" THEN Throw("history is not iterable")
       ELSE Fetch(<<[role |-> "system", content |-> SystemPromptServerless]>>
                    \o ForwardedTurns(history.v)
                    \o <<[role |-> "user",
                          content |-> ServerlessUserContent(context.v, prompt.v)]>>)

\* The Express route from the end of its await fetch.
ExpressAfterFetch(result) ==
  IF result.rejected THEN Json(500, [error |-> result.message])
  ELSE IF ~ResponseOk(result)
    THEN Json(502, [error |-> "Model failed", details |-> result.text])
  ELSE IF ~result.json THEN Json(500, [error |-> "Unexpected token < in JSON at position 0"])
  ELSE IF result.content.t = "number"
    THEN Json(500, [error |-> "data.choices?.[0]?.message?.content?.trim is not a function"])
  ELSE
    LET trimmed == IF result.content.t = "string" THEN Trim(result.content.v) ELSE <<>>
        reply == IF trimmed = <<>> THEN NoReply ELSE trimmed
    IN Json(200, [reply |-> ReplyOrFallback(sanitizeReplyText(reply))])

\* The serverless handler from the end of its await fetch.
ServerlessAfterFetch(result) ==
  IF result.rejected THEN Json(500, [error |-> result.message])
  ELSE IF ~ResponseOk(result)
    THEN Json(502, [error |-> "Model inference failed", details |-> result.text])
  ELSE IF ~result.json THEN Json(500, [error |-> "Unexpected token < in JSON at position 0"])
  ELSE IF result.content.t = "number"
    THEN Json(500, [error |-> "data.choices?.[0]?.message?.content?.trim is not a function"])
  ELSE
    LET reply == IF result.content.t = "string" THEN Trim(result.content.v) ELSE <<>>
    IN IF reply = <<>>
       THEN Json(500, [error |-> "Empty response from model", raw |-> result.content])
       ELSE Json(200, [reply |-> reply])

\* ------------------------------------------------------------ actions

\* The relay before its first request, HF_API_KEY one of Keys.
RelayStart(Keys) ==
  /\ hfApiKey \in Keys
  /\ pc = "idle"
  /\ handler = "none"
  /\ req = NoRequest
  /\ fetched = <<>>
  /\ upstreamResult = NoResult
  /\ res = NoResponse

\* ------------------------------------------------- the browser's start state

\* No answer handled yet.
NoAnswer == [kind |-> "none", data |-> Null, text |-> <<>>]
\* No request.
NoFetch == [bubble |-> 0, prompt |-> <<>>, context |-> <<>>, history |-> <<>>]
NoDelivery == [request |-> NoFetch, answer |-> NoAnswer]

\* The widget after initAITerminal: nothing asked, the terminal closed.
WidgetStart ==
  /\ convo = [history |-> <<>>, booted |-> FALSE, pendingRequest |-> Null]
  /\ terminal = [active |-> FALSE, disabled |-> FALSE]
  /\ bubbles = <<>>
  /\ inflight = {}
  /\ delivered = NoDelivery

\* const roles of initRoleTyping.
roles ==
  <<<<"A", "I", " ", "E", "n", "g", "i", "n", "e", "e", "r">>,
    <<"L", "L", "M", " ", "&", " ", "R", "A", "G", " ", "S", "y", "s", "t", "e", "m", "s">>,
    <<"R", "e", "a", "l", "-", "T", "i", "m", "e", " ", "M", "L", " ", "P", "l", "a", "t", "f", "o", "r", "m", "s">>>>

\* The role typing effect after initRoleTyping, for a page that is hidden or
\* not and a user who prefers reduced motion or not: with reduced motion the
\* first role is shown and nothing is scheduled; otherwise the first tick is
\* scheduled.  idx counts from 0 as in the source; timeoutId 0 is null.
RoleTypingAfterInit(hidden, prefersReduced) ==
  [prefersReduced |-> prefersReduced,
   hidden |-> hidden,
   idx |-> 0,
   charIndex |-> 0,
   deleting |-> FALSE,
   timeoutId |-> IF prefersReduced THEN 0 ELSE 1,
   timers |-> IF prefersReduced THEN {} ELSE {1},
   textContent |-> IF prefersReduced THEN roles[1] ELSE <<>>]

RoleTypingStart(Hiddens, Reduceds) ==
  \E h \in Hiddens, r \in Reduceds : roleTyping = RoleTypingAfterInit(h, r)

\* The canvas animation after initParticleNetworkAnimation: with reduced
\* motion a static drawing and no listener; otherwise the first spawn timer
\* and the first animation frame are pending and both listeners are
\* attached.  spawnTimer and rafId 0 are null; resizeTimeout is the timer of
\* the debounced resize listener, 0 while it is undefined; changed says
\* that the visibility has changed since the page was loaded, and
\* cleanedUp that the cleanup handler has run.
SignalAfterInit(hidden, prefersReduced) ==
  [prefersReduced |-> prefersReduced,
   hidden |-> hidden,
   changed |-> FALSE,
   running |-> TRUE,
   spawnTimer |-> IF prefersReduced THEN 0 ELSE 1,
   rafId |-> IF prefersReduced THEN 0 ELSE 1,
   resizeTimeout |-> 0,
   timers |-> IF prefersReduced THEN {} ELSE {1},
   frames |-> IF prefersReduced THEN {} ELSE {1},
   resizeTimers |-> {},
   pulses |-> 0,
   listening |-> ~prefersReduced,
   cleanedUp |-> FALSE]

SignalStart(Hiddens, Reduceds) ==
  \E h \in Hiddens, r \in Reduceds : signal = SignalAfterInit(h, r)

\* A listener just made by debounce: no timer yet.  timeout 0 is undefined;
\* a pending timer holds the arguments of its call and its age; sinceCall is
\* the time since the last call; calls and runs record the calls of the
\* listener and the invocations of func.
DebouncedStart ==
  debounced = [timeout |-> 0, timers |-> {}, sinceCall |-> 0,
               calls |-> <<>>, runs |-> <<>>]

\* What gatherProfileContext has returned: nothing yet.
NotGathered == [done |-> FALSE, text |-> <<>>]

ProfileStart(Pages) ==
  \E page \in Pages : profile = [page |-> page, result |-> NotGathered]

\* A page with none of the sections.
EmptyPage ==
  [about |-> Undefined, projects |-> Undefined, skills |-> Undefined,
   experience |-> Undefined, education |-> Undefined,
   achievements |-> Undefined, certif |-> Undefined]

\* The browser side before anything has happened on the page.
BrowserStart ==
  /\ WidgetStart
  /\ RoleTypingStart({FALSE}, {FALSE})
  /\ SignalStart({FALSE}, {FALSE})
  /\ DebouncedStart
  /\ ProfileStart({EmptyPage})

\* The relay with no request, for the specifications of the browser side.
RelayIdle == RelayStart({Undefined})

Init ==
  /\ RelayStart(KeyValues)
  /\ BrowserStart

\* A request arrives and the handler named runs up to its answer or its fetch.
Begin(name, method, body, step) ==
  /\ pc = "idle"
  /\ handler' = name
  /\ req' = [method |-> method, body |-> body]
  /\ upstreamResult' = NoResult
  /\ IF step.fetch
     THEN /\ pc' = "awaiting"
          /\ fetched' = <<step.messages>>
          /\ res' = NoResponse
     ELSE /\ pc' = "responded"
          /\ fetched' = <<>>
          /\ res' = step.response
  /\ UNCHANGED <<hfApiKey, browserVars>>

\* POST /api/chat of the Express application, its body one of Bodies.
ExpressChat(Bodies) ==
  /\ pc = "idle"
  /\ \E body \in Bodies :
       Begin("express", "POST", body, ExpressBeforeFetch(hfApiKey, body))

\* The serverless function, called with any method and a body of Bodies.
ServerlessHandler(Bodies) ==
  /\ pc = "idle"
  /\ \E method \in Methods, body \in Bodies :
       Begin("serverless", method, body, ServerlessBeforeFetch(hfApiKey, method, body))

\* The model endpoint answers (or the call fails) with one of Results and
\* the handler responds.
UpstreamReturns(Results) ==
  /\ pc = "awaiting"
  /\ \E result \in Results :
       /\ upstreamResult' = result
       /\ res' = IF handler = "express" THEN ExpressAfterFetch(result)
                 ELSE ServerlessAfterFetch(result)
  /\ pc' = "responded"
  /\ UNCHANGED <<hfApiKey, handler, req, fetched, browserVars>>

\* The response is sent; the server waits for the next request.
NextRequest ==
  /\ pc = "responded"
  /\ pc' = "idle"
  /\ handler' = "none"
  /\ req' = NoRequest
  /\ fetched' = <<>>
  /\ upstreamResult' = NoResult
  /\ res' = NoResponse
  /\ UNCHANGED <<hfApiKey, browserVars>>

\* Every request, a few answers of the model endpoint.
Next ==
  \/ ExpressChat(RequestBodies)
  \/ ServerlessHandler(RequestBodies)
  \/ UpstreamReturns(FewResults)
  \/ NextRequest

Spec == Init /\ [][Next]_vars

\* A few requests, every answer of the model endpoint.
NextReply ==
  \/ ExpressChat(FewRequestBodies)
  \/ ServerlessHandler(FewRequestBodies)
  \/ UpstreamReturns(ModelResults)
  \/ NextRequest

SpecReply == Init /\ [][NextReply]_vars

\* ------------------------------------------------------------ properties

\* The number of occurrences of character c in text t.
RECURSIVE Count(_, _)
Count(t, c) ==
  IF t = <<>> THEN 0 ELSE (IF Head(t) = c THEN 1 ELSE 0) + Count(Tail(t), c)

\* Whether n consecutive characters of S occur somewhere in t.
HasRun(t, S, n) ==
  \E i \in 1..(Len(t) - n + 1) : \A j \in i..(i + n - 1) : t[j] \in S

\* Whether sub occurs in text as a contiguous piece.
Contains(text, sub) ==
  \E i \in 1..(Len(text) - Len(sub) + 1) : SubSeq(text, i, i + Len(sub) - 1) = sub

\* A handler has sent its request to the model endpoint.
Sent == fetched # <<>>

\* The model endpoint has answered an OK response whose body is a completion.
GotCompletion ==
  /\ pc = "responded"
  /\ Sent
  /\ ~upstreamResult.rejected
  /\ upstreamResult.status = 200
  /\ upstreamResult.json

\* The completion's content is missing, or a string that is blank.
ContentMissingOrBlank ==
  \/ upstreamResult.content.t = "undefined"
  \/ upstreamResult.content.t = "string" /\ Trim(upstreamResult.content.v) = <<>>

\* C1: the messages the Express route sends upstream hold, between the
\* system message and the final user message, exactly the last min(5, n)
\* entries of the request's history of n entries, in their order.
C1_ExpressForwardsLastFive ==
  (handler = "express" /\ Sent) =>
    LET h == req.body.history.v
        n == Len(h)
        k == IF n < 5 THEN n ELSE 5
        msgs == fetched[1]
    IN /\ Len(msgs) = k + 2
       /\ \A i \in 1..k :
            /\ msgs[i + 1].content = h[n - k + i].content
            /\ msgs[i + 1].role = (IF h[n - k + i].role = "user" THEN "user" ELSE "assistant")

\* C1's case: a history of more than five entries went upstream.
C1_Witness ==
  /\ handler = "express"
  /\ Sent
  /\ Len(req.body.history.v) > 5

\* C2, as claimed: the serverless handler places at most a fixed number of
\* history turns (the Express route's five) in its upstream request.
C2_ServerlessHistoryBounded ==
  (handler = "serverless" /\ Sent) => Len(fetched[1]) - 2 <= HistoryLimit

C4_ServerlessReplySanitized ==
  (handler = "serverless" /\ pc = "responded" /\ res.status = 200) =>
    /\ ~HasRun(res.body.reply, {BT}, 3)
    /\ Count(res.body.reply, BT) <= 1

\* C5: every 200 response carries a non-empty reply; the Express route
\* answers 'No reply' for a missing or blank content and "I don't know."
\* when sanitization leaves nothing; the serverless handler answers 500
\* 'Empty response from model' for a missing or blank content.
C5_ReplyNeverEmpty ==
  /\ (pc = "responded" /\ res.status = 200) => res.body.reply # <<>>
  /\ (handler = "express" /\ GotCompletion /\ ContentMissingOrBlank) =>
       (res.status = 200 /\ res.body.reply = NoReply)
  /\ (/\ handler = "express"
      /\ GotCompletion
      /\ upstreamResult.content.t = "string"
      /\ Trim(upstreamResult.content.v) # <<>>
      /\ sanitizeReplyText(Trim(upstreamResult.content.v)) = <<>>) =>
       (res.status = 200 /\ res.body.reply = IDontKnow)
  /\ (handler = "serverless" /\ GotCompletion /\ ContentMissingOrBlank) =>
       (res.status = 500 /\ res.body.error = "Empty response from model")

\* C5's case: the model's output was not blank and sanitization left nothing.
C5_Witness ==
  /\ handler = "express"
  /\ GotCompletion
  /\ upstreamResult.content.t = "string"
  /\ Trim(upstreamResult.content.v) # <<>>
  /\ res.status = 200
  /\ res.body.reply = IDontKnow

\* The request's prompt is missing, empty or whitespace-only.
PromptMissingOrBlank ==
  \/ req.body.prompt.t = "undefined"
  \/ req.body.prompt.t = "string" /\ Trim(req.body.prompt.v) = <<>>

\* The answer 400 'Prompt required', with nothing sent to the model endpoint.
PromptRequiredAnswer ==
  /\ pc = "responded"
  /\ res.status = 400
  /\ res.body.error = "Prompt required"
  /\ ~Sent

\* C6, as claimed: the Express route answers a request whose prompt is
\* missing, empty or whitespace-only with 400 'Prompt required' and sends
\* nothing to the model endpoint.
C6_BlankPromptRejected ==
  (handler = "express" /\ PromptMissingOrBlank) => PromptRequiredAnswer

\* C6, amended: the same, when HF_API_KEY is set to a non-empty value.
C6_BlankPromptRejectedWithKey ==
  (/\ handler = "express"
   /\ PromptMissingOrBlank
   /\ hfApiKey.t = "string"
   /\ hfApiKey.v # <<>>) => PromptRequiredAnswer

\* C6's case: a whitespace-only prompt was refused.
C6_Witness ==
  /\ handler = "express"
  /\ req.body.prompt = Str(<<SP>>)
  /\ res.status = 400

\* C7: with HF_API_KEY not set every POST request to either handler is
\* answered 500 'HF_API_KEY missing', whatever its body, and nothing is
\* sent to the model endpoint.
C7_MissingKeyAnswered ==
  (handler # "none" /\ req.method = "POST" /\ hfApiKey.t = "undefined") =>
    /\ pc = "responded"
    /\ res.status = 500
    /\ res.body.error = "HF_API_KEY missing"
    /\ ~Sent

\* C7's case: an otherwise valid request was answered 500 for the key.
C7_Witness ==
  /\ handler = "serverless"
  /\ req.method = "POST"
  /\ hfApiKey.t = "undefined"
  /\ req.body.prompt = Str(<<"q">>)
  /\ Len(req.body.history.v) = MaxHist
  /\ res.status = 500

C9_MethodNotAllowed ==
  (handler = "serverless" /\ req.method # "POST") =>
    /\ pc = "responded"
    /\ res.status = 405
    /\ <<"Allow", "POST">> \in res.headers
    /\ res.body.error = "Method Not Allowed"
    /\ ~Sent

\* C9's case: a PUT was refused although the key is not set either.
C9_Witness ==
  /\ handler = "serverless"
  /\ req.method = "PUT"
  /\ hfApiKey.t = "undefined"
  /\ res.status = 405

\* C10: an upstream request has one system message, the first; its last
\* message is a user message containing the prompt; the messages between
\* are the last history entries, 'user' for a 'user' entry and 'assistant'
\* for any other.
C10_MessagesWellFormed ==
  Sent =>
    LET msgs == fetched[1]
        h == req.body.history.v
        k == Len(msgs) - 2
    IN /\ Len(msgs) >= 2
       /\ msgs[1].role = "system"
       /\ Cardinality({i \in 1..Len(msgs) : msgs[i].role = "system"}) = 1
       /\ msgs[Len(msgs)].role = "user"
       /\ Contains(msgs[Len(msgs)].content, req.body.prompt.v)
       /\ k <= Len(h)
       /\ \A i \in 1..k :
            /\ msgs[i + 1].role \in {"user", "assistant"}
            /\ msgs[i + 1].role = "user" <=> h[Len(h) - k + i].role = "user"

\* C10's case: a history entry of role 'system' was forwarded.
C10_Witness ==
  /\ Sent
  /\ \E i \in 2..(Len(fetched[1]) - 1) :
       /\ req.body.history.v[Len(req.body.history.v) - (Len(fetched[1]) - 2) + i - 1].role = "system"
       /\ fetched[1][i].role = "assistant"

\* ------------------------------------------------- the profile context

ProfileHeader == <<"=== ATHAR SAYED - PROFESSIONAL PROFILE ===">>
ProjectsHeader == <<"=== PROJECTS ===">>
SkillsHeader == <<"=== SKILLS & EXPERTISE ===">>
ExperienceHeader == <<"=== PROFESSIONAL EXPERIENCE ===">>
EducationHeader == <<"=== EDUCATION ===">>
CertificationsHeader == <<"=== CERTIFICATIONS & ACHIEVEMENTS ===">>
NoProfileInformation == <<"No profile information found on page.">>

\* The elements gatherProfileContext looks for.
SectionIds ==
  {"about", "projects", "skills", "experience", "education", "achievements",
   "certif"}

\* An element of the page: missing, or there with blank text or with text
\* that names it.
ElementValues(id) == {Undefined, Str(<<SP>>), Str(<<id, NL, "text">>)}

\* The pages the context is gathered from.
Pages == {page \in [SectionIds -> UNION {ElementValues(id) : id \in SectionIds}] :
            \A id \in SectionIds : page[id] \in ElementValues(id)}

\* elem ? elem.innerText : ''
InnerText(elem) == IF elem.t = "undefined" THEN <<>> ELSE elem.v

\* a || b for two elements: the first if there is one.
FirstElement(a, b) == IF a.t # "undefined" THEN a ELSE b

RECURSIVE JoinTexts(_, _)
\* Array.prototype.join: the texts with sep between them.
JoinTexts(texts, sep) ==
  IF texts = <<>> THEN <<>>
  ELSE IF Len(texts) = 1 THEN texts[1]
  ELSE texts[1] \o sep \o JoinTexts(Tail(texts), sep)

\* s => s.trim(), as the test of a filter.
NonBlank(s) == Trim(s) # <<>>

\* The list gatherProfileContext filters and joins.
ContextLines(page) ==
  <<ProfileHeader,
    <<>>,
    InnerText(page["about"]),
    <<>>,
    ProjectsHeader,
    InnerText(page["projects"]),
    <<>>,
    SkillsHeader,
    InnerText(page["skills"]),
    <<>>,
    ExperienceHeader,
    InnerText(page["experience"]),
    <<>>,
    EducationHeader,
    InnerText(page["education"]),
    <<>>,
    CertificationsHeader,
    InnerText(FirstElement(page["achievements"], page["certif"]))>>

\* gatherProfileContext on a page.  Nothing in the try block throws for an
\* element that has an innerText, so the catch branch is not taken.
gatherProfileContext(page) ==
  LET context == JoinTexts(SelectSeq(ContextLines(page), NonBlank), <<NL>>)
  IN IF context # <<>> THEN context ELSE NoProfileInformation

\* A call of gatherProfileContext.
GatherProfileContext ==
  /\ ~profile.result.done
  /\ profile' = [profile EXCEPT
       !.result = [done |-> TRUE, text |-> gatherProfileContext(profile.page)]]
  /\ UNCHANGED <<relayVars, widgetVars, roleTyping, signal, debounced>>

InitProfile ==
  /\ RelayIdle
  /\ WidgetStart
  /\ RoleTypingStart({FALSE}, {FALSE})
  /\ SignalStart({FALSE}, {FALSE})
  /\ DebouncedStart
  /\ ProfileStart(Pages)

NextProfile ==
  \/ GatherProfileContext

\* The context is gathered from every page.
SpecProfile == InitProfile /\ [][NextProfile]_vars

\* The text of the section a page shows for its certifications.
SectionText(page, id) ==
  IF id = "certifications"
  THEN InnerText(FirstElement(page["achievements"], page["certif"]))
  ELSE InnerText(page[id])

Sections ==
  <<"about", "projects", "skills", "experience", "education", "certifications">>

SectionHeaders ==
  <<ProfileHeader, ProjectsHeader, SkillsHeader, ExperienceHeader,
    EducationHeader, CertificationsHeader>>

\* No section of the page has text: each is missing or blank.
NoSectionText(page) ==
  \A i \in 1..Len(Sections) : ~NonBlank(SectionText(page, Sections[i]))

RECURSIVE HeadersAndTexts(_, _)
\* From section i on: each header, followed by the section's text where
\* that is not blank.
HeadersAndTexts(page, i) ==
  IF i > Len(Sections) THEN <<>>
  ELSE LET text == SectionText(page, Sections[i])
       IN <<SectionHeaders[i]>> \o (IF NonBlank(text) THEN <<text>> ELSE <<>>)
            \o HeadersAndTexts(page, i + 1)

\* C17: gatherProfileContext returns 'No profile information found on
\* page.' when no section exists or all of them are blank, and otherwise the
\* non-blank section texts with the headers, joined by newlines.
C17_ContextFromSections ==
  profile.result.done =>
    IF NoSectionText(profile.page)
    THEN profile.result.text = NoProfileInformation
    ELSE profile.result.text = JoinTexts(HeadersAndTexts(profile.page, 1), <<NL>>)

\* ------------------------------------------------- the chat widget: texts

\* The bubbles the chat shows in a run.
MaxBubbles == 5
\* The intros being typed at once that opening the terminal adds to.
MaxBoots == 1
\* A reply has up to MaxExtra characters more than the longest reply that is
\* shown at once.
MaxExtra == 2

\* minLengthForAnimation of TYPING_CONFIG and of askMistral's options.
MinLengthForAnimation == 48

UpperCase ==
  <<"A", "B", "C", "D", "E", "F", "G", "H", "I", "J", "K", "L", "M",
    "N", "O", "P", "Q", "R", "S", "T", "U", "V", "W", "X", "Y", "Z">>
LowerCase ==
  <<"a", "b", "c", "d", "e", "f", "g", "h", "i", "j", "k", "l", "m",
    "n", "o", "p", "q", "r", "s", "t", "u", "v", "w", "x", "y", "z">>

\* String.prototype.toLowerCase.
toLowerCase(text) ==
  [i \in 1..Len(text) |->
     IF \E k \in 1..Len(UpperCase) : UpperCase[k] = text[i]
     THEN LowerCase[CHOOSE k \in 1..Len(UpperCase) : UpperCase[k] = text[i]]
     ELSE text[i]]

\* What sanitize writes for one character.
sanitizeChar(c) ==
  CASE c = "&" -> "&amp;"
    [] c = "<" -> "&lt;"
    [] c = ">" -> "&gt;"
    [] c = NL -> "<br>"
    [] OTHER -> c

\* sanitize: & first, then <, > and the newline; the four replacements never
\* meet, so the result is the text character by character.
sanitize(str) == [i \in 1..Len(str) |-> sanitizeChar(str[i])]

RECURSIVE SplitFrom(_, _, _)
\* The tokens of text from position i on, cur being the token begun.
SplitFrom(text, i, cur) ==
  IF i > Len(text) THEN <<cur>>
  ELSE IF IsWhitespace(text[i])
  THEN LET rest == {j \in i..Len(text) : ~IsWhitespace(text[j])}
           next == IF rest = {} THEN Len(text) + 1
                   ELSE CHOOSE j \in rest : \A k \in rest : j <= k
       IN <<cur>> \o SplitFrom(text, next, <<>>)
  ELSE SplitFrom(text, i + 1, Append(cur, text[i]))

\* String(text).split(/\s+/)
SplitWhitespace(text) == SplitFrom(text, 1, <<>>)

Thinking == <<"Thinking...">>
NoResponseText == <<"No response">>
ErrorPrefix == <<"Error: ">>
NetworkErrorPrefix == <<"Network error: ">>
HelpText ==
  <<"Available commands: help, projects, skills, contact, about, clear, stop",
    "<br>",
    "You can also type any question about the profile (e.g., \"Tell me about Athar's projects\").">>
ContactText == <<"Email: <a href=\"mailto:sayedathar242@gmail.com\">sayedathar242@gmail.com</a>">>
NoProjectDetails == <<"No project details found on the page.">>
SkillsNotFound == <<"Skills info not found.">>
AboutNotFound == <<"About section not found.">>
Stopping == <<"Stopping current request...">>
NoRequestInProgress == <<"No request in progress.">>

\* const bootMessage, its three sentences each as one token: the word timer
\* of the model types a sentence where the program types a word.
bootMessage ==
  <<"Allow-me-to-introduce-myself-...-(Intelligent-Responsive-Interface-System)",
    SP,
    "here-to-help-you-explore-Athar-Sayed's-professional-profile.",
    SP,
    "You-can-ask-me-any-questions-about-Athar's-profile.">>

\* The names of localCommands.
Help == <<"h", "e", "l", "p">>
Projects == <<"p", "r", "o", "j", "e", "c", "t", "s">>
Skills == <<"s", "k", "i", "l", "l", "s">>
Contact == <<"c", "o", "n", "t", "a", "c", "t">>
About == <<"a", "b", "o", "u", "t">>
Clear == <<"c", "l", "e", "a", "r">>
Stop == <<"s", "t", "o", "p">>
CommandNames == {Help, Projects, Skills, Contact, About, Clear, Stop}

\* ------------------------------------------------- extractModelText

\* payload[key], undefined where payload has no such property.
Get(payload, key) ==
  IF payload.t = "object" /\ key \in DOMAIN payload.v THEN payload.v[key]
  ELSE Undefined

\* Whether a value counts as true.
Truthy(x) ==
  CASE x.t \in {"undefined", "null"} -> FALSE
    [] x.t = "string" -> x.v # <<>>
    [] OTHER -> TRUE

Digits == {"0", "1", "2", "3", "4", "5", "6", "7", "8", "9"}
AlphaNumeric ==
  {UpperCase[k] : k \in 1..Len(UpperCase)} \cup
  {LowerCase[k] : k \in 1..Len(LowerCase)} \cup Digits

\* looksLikeJsonString: a bracket or brace, whitespace, then a quote, a
\* letter or a digit.
looksLikeJsonString(s) ==
  LET t == Trim(s)
      rest == IF t = <<>> THEN <<>> ELSE TrimStart(Tail(t))
  IN /\ t # <<>>
     /\ t[1] \in {"[", "{"}
     /\ rest # <<>>
     /\ rest[1] \in {"\"", "'"} \cup AlphaNumeric

\* JSON.parse of a text that looks like JSON.  The texts of the model that
\* look like JSON break off after their first character, so JSON.parse
\* throws.
JsonParse(text) == [threw |-> TRUE, value |-> Undefined]

\* p?.text || p?.content || '' for a part that is no string, with the keys
\* the caller reads.
PartText(p, keys) ==
  IF p.t = "string" THEN p.v
  ELSE IF "text" \in keys /\ Truthy(Get(p, "text")) THEN Get(p, "text").v
  ELSE IF "content" \in keys /\ Truthy(Get(p, "content")) THEN Get(p, "content").v
  ELSE <<>>

\* parts.map(...).join('\n\n').trim()
PartsText(parts, keys) ==
  Trim(JoinTexts([i \in 1..Len(parts.v) |-> PartText(parts.v[i], keys)], <<NL, NL>>))

\* A text as a result: the string, or null for the empty one.
TextOrNull(text) == IF text # <<>> THEN Str(text) ELSE Null

RECURSIVE ChoicesText(_, _)
\* The loop over payload.choices from the i-th choice on; a choice that is
\* null throws, which ends the loop.
ChoicesText(choices, i) ==
  IF i > Len(choices) THEN Null
  ELSE LET c == choices[i]
           message == Get(c, "message")
           content == Get(message, "content")
           parts == IF Truthy(Get(content, "parts")) THEN Get(content, "parts")
                    ELSE IF Truthy(content) THEN content
                    ELSE message
           txt == IF parts.t = "array" /\ Len(parts.v) > 0
                  THEN PartsText(parts, {"text"}) ELSE <<>>
       IN IF txt # <<>> THEN Str(txt)
          ELSE IF c.t \in {"null", "undefined"} THEN Null
          ELSE IF Get(c, "text").t = "string" /\ Trim(Get(c, "text").v) # <<>>
          THEN Str(Trim(Get(c, "text").v))
          ELSE IF content.t = "string" /\ Trim(content.v) # <<>>
          THEN Str(Trim(content.v))
          ELSE ChoicesText(choices, i + 1)

\* The order in which the bodies of the model write their keys.
KeyOrder ==
  <<"reply", "text", "content", "parts", "choices", "message", "result",
    "data", "response", "output", "answer">>

RECURSIVE findFirstString(_)
RECURSIVE FirstStringOf(_)
\* findFirstString: the first non-blank string of a value, trimmed.  A body
\* parsed from JSON holds no object twice.
findFirstString(obj) ==
  CASE ~Truthy(obj) \/ obj.t = "number" -> Null
    [] obj.t = "string" -> TextOrNull(Trim(obj.v))
    [] obj.t = "array" -> FirstStringOf(obj.v)
    [] obj.t = "object" ->
         FirstStringOf(
           [i \in 1..Len(SelectSeq(KeyOrder, LAMBDA k : k \in DOMAIN obj.v)) |->
              obj.v[SelectSeq(KeyOrder, LAMBDA k : k \in DOMAIN obj.v)[i]]])

\* The loops of findFirstString over the items of an array or the values
\* of an object.
FirstStringOf(items) ==
  IF items = <<>> THEN Null
  ELSE IF Truthy(findFirstString(items[1])) THEN findFirstString(items[1])
  ELSE FirstStringOf(Tail(items))

altKeys == <<"result", "data", "response", "output">>

RECURSIVE extractModelText(_)
RECURSIVE AltKeysText(_, _)
\* extractModelText: null, or the text found, the places tried in the
\* order of the source.
extractModelText(payload) ==
  LET parsedPayload == JsonParse(payload.v)
      reply == Get(payload, "reply")
      candidate == Trim(reply.v)
      parsedReply == JsonParse(candidate)
      fromReply ==
        IF reply.t # "string" THEN Null
        ELSE IF looksLikeJsonString(candidate)
        THEN IF ~parsedReply.threw /\ Truthy(extractModelText(parsedReply.value))
             THEN extractModelText(parsedReply.value)
             ELSE Null
        ELSE TextOrNull(candidate)
      text == Get(payload, "text")
      fromText ==
        IF text.t = "string" THEN TextOrNull(Trim(text.v)) ELSE Null
      parts == Get(Get(payload, "content"), "parts")
      fromParts ==
        IF Truthy(Get(payload, "content")) /\ parts.t = "array" /\ Len(parts.v) > 0
        THEN TextOrNull(PartsText(parts, {"text", "content"}))
        ELSE Null
      choices == Get(payload, "choices")
      fromChoices ==
        IF choices.t = "array" /\ Len(choices.v) > 0
        THEN ChoicesText(choices.v, 1)
        ELSE Null
  IN IF /\ payload.t = "string"
        /\ looksLikeJsonString(payload.v)
        /\ ~parsedPayload.threw
        /\ Truthy(extractModelText(parsedPayload.value))
     THEN extractModelText(parsedPayload.value)
     ELSE IF payload.t \in {"null", "undefined"} THEN Null
     ELSE IF payload.t = "string" THEN TextOrNull(Trim(payload.v))
     ELSE IF fromReply # Null THEN fromReply
     ELSE IF fromText # Null THEN fromText
     ELSE IF fromParts # Null THEN fromParts
     ELSE IF fromChoices # Null THEN fromChoices
     ELSE IF AltKeysText(payload, 1) # Null THEN AltKeysText(payload, 1)
     ELSE findFirstString(payload)

\* The loop over altKeys from the i-th key on.
AltKeysText(payload, i) ==
  IF i > Len(altKeys) THEN Null
  ELSE IF /\ Truthy(Get(payload, altKeys[i]))
          /\ Truthy(extractModelText(Get(payload, altKeys[i])))
  THEN extractModelText(Get(payload, altKeys[i]))
  ELSE AltKeysText(payload, i + 1)

\* ------------------------------------------------- the chat widget: bubbles

\* The bubble appendMessage makes: its role, its content (innerHTML, or the
\* value of its text node while the character animation runs), its 'typing'
\* class, its _typingController, the text being typed and how far, whether
\* an animation frame is requested for it, and whether it is still in the
\* chat.
NewBubble(role, text) ==
  [role |-> role, content |-> text, textNode |-> FALSE, typing |-> FALSE,
   controller |-> "none", fullText |-> <<>>, idx |-> 0, raf |-> FALSE,
   attached |-> TRUE]

\* The widget as one value, and the widget becoming such a value.
Widget ==
  [convo |-> convo, terminal |-> terminal, bubbles |-> bubbles,
   inflight |-> inflight]
Becomes(w) ==
  /\ convo' = w.convo
  /\ terminal' = w.terminal
  /\ bubbles' = w.bubbles
  /\ inflight' = w.inflight

appendMessage(w, role, text) ==
  [w EXCEPT !.bubbles = Append(@, NewBubble(role, text))]

appendTypingMessage(w, role) ==
  [w EXCEPT !.bubbles = Append(@, NewBubble(role, <<>>))]

\* typeTextToBubble up to its return: the controller is registered and the
\* first timer set; a word controller always has one timer pending.
typeTextToBubble(b, text) ==
  [b EXCEPT !.typing = TRUE, !.controller = "word", !.fullText = text,
            !.idx = 0]

\* The end of the word typing, by its last timer or by cancel.
WordDone(b) ==
  [b EXCEPT !.typing = FALSE, !.content = sanitize(b.fullText),
            !.controller = "none"]

\* A timer of typeTextToBubble fires.
WordStep(b) ==
  LET tokens == SplitWhitespace(b.fullText)
  IN IF b.idx >= Len(tokens) THEN WordDone(b)
     ELSE [b EXCEPT
            !.content = sanitize(JoinTexts(SubSeq(tokens, 1, b.idx + 1), <<SP>>)),
            !.idx = b.idx + 1]

\* displayBootMessage up to its await.
displayBootMessage(w) ==
  LET shown == appendTypingMessage([w EXCEPT !.terminal.disabled = TRUE], "system")
      i == Len(shown.bubbles)
  IN [shown EXCEPT !.bubbles[i] = typeTextToBubble(@, bootMessage)]

\* displayBootMessage after its await.
BootResumes(w) ==
  [w EXCEPT !.terminal.disabled = FALSE, !.convo.booted = TRUE]

\* finish without the final render: the bubble keeps the text node.
finishKeepsTyping(b) ==
  [b EXCEPT !.typing = FALSE, !.raf = FALSE,
            !.controller = IF @ = "char" THEN "none" ELSE @]

\* finish of startTypingAnimation: resolved, no frame left.
finish(b) ==
  [b EXCEPT !.content = sanitize(b.fullText), !.textNode = FALSE,
            !.typing = FALSE, !.raf = FALSE,
            !.controller = IF @ = "char" THEN "none" ELSE @]

\* step of startTypingAnimation, charsToAdd characters being due.
step(b, charsToAdd) ==
  IF b.idx < Len(b.fullText)
  THEN LET nextIdx == IF b.idx + charsToAdd < Len(b.fullText)
                      THEN b.idx + charsToAdd ELSE Len(b.fullText)
       IN [b EXCEPT !.content = SubSeq(b.fullText, 1, nextIdx),
                    !.idx = nextIdx, !.typing = TRUE, !.raf = TRUE]
  ELSE finish(b)

\* startTypingAnimation for a reply that is a string.
startTypingAnimation(b, fullText) ==
  IF Len(fullText) <= MinLengthForAnimation
  THEN [b EXCEPT !.content = sanitize(fullText), !.textNode = FALSE,
                 !.typing = FALSE]
  ELSE [b EXCEPT !.content = <<>>, !.textNode = TRUE, !.fullText = fullText,
                 !.idx = 0, !.raf = TRUE, !.controller = "char"]

skipBubbleTyping(b) ==
  IF b.controller = "char" THEN finish(b)
  ELSE IF b.controller = "word" THEN WordDone(b)
  ELSE b

\* skipAllTyping: the bubbles of the document with the class 'typing'.
skipAllTyping(w) ==
  [w EXCEPT !.bubbles =
     [i \in DOMAIN w.bubbles |->
        IF w.bubbles[i].attached /\ w.bubbles[i].typing
        THEN skipBubbleTyping(w.bubbles[i])
        ELSE w.bubbles[i]]]

\* A listener has turned before into after; a word typing it ended resolves
\* the promise displayBootMessage awaits, which resumes once the listener
\* has returned.
AfterListener(before, after) ==
  IF \E i \in DOMAIN before.bubbles :
       /\ before.bubbles[i].controller = "word"
       /\ after.bubbles[i].controller # "word"
  THEN BootResumes(after)
  ELSE after

\* ------------------------------------------------- the chat widget: handlers

\* The entries askMistral pushes on convo.history.
UserEntry(userMessage) == [role |-> "user", content |-> userMessage]
AssistantEntryAsUser(reply) == [role |-> "user", content |-> reply]
AssistantEntry(reply) == [role |-> "assistant", content |-> reply]

\* The bubble a request writes to: the one of its own placeholder, which
\* the closure holds.
TargetBubbleLatest(w, r) == Len(w.bubbles)
TargetBubble(w, r) == r.bubble

\* askMistral up to its await of fetch: the request in flight holds the
\* bubble it will write to and the payload it sent.
askMistral(w, userMessage) ==
  LET asked == [w EXCEPT !.convo.history =
                  Append(@, UserEntry(userMessage))]
      placed == appendMessage(asked, "assistant", Thinking)
      i == Len(placed.bubbles)
      request == [bubble |-> i,
                  prompt |-> userMessage,
                  context |-> gatherProfileContext(profile.page),
                  history |-> asked.convo.history]
  IN [placed EXCEPT !.bubbles[i].typing = TRUE,
                    !.inflight = @ \cup {request}]

\* localCommands[key]() on a page without sections: the widget after it and
\* what it returned.
localCommands(w, key) ==
  CASE key = Help -> [w |-> w, out |-> Str(HelpText)]
    [] key = Projects -> [w |-> w, out |-> Str(NoProjectDetails)]
    [] key = Skills -> [w |-> w, out |-> Str(SkillsNotFound)]
    [] key = Contact -> [w |-> w, out |-> Str(ContactText)]
    [] key = About -> [w |-> w, out |-> Str(AboutNotFound)]
    [] key = Clear ->
         [w |-> displayBootMessage(
                  [w EXCEPT !.bubbles =
                     [i \in DOMAIN w.bubbles |->
                        [w.bubbles[i] EXCEPT !.attached = FALSE]]]),
          out |-> Null]
    [] key = Stop ->
         [w |-> w,
          out |-> IF w.convo.pendingRequest.t # "null"
                  THEN Str(Stopping)
                  ELSE Str(NoRequestInProgress)]

\* The listener of Enter and of the send button, the input being enabled
\* and holding value.
submit(w, value) ==
  LET revealed == skipAllTyping(w)
      input == Trim(value)
      said == appendMessage(revealed, "user", sanitize(input))
      key == toLowerCase(input)
      ran == localCommands(said, key)
  IN IF input = <<>> THEN revealed
     ELSE IF key \in CommandNames
     THEN IF ran.out.t # "null" /\ ran.out.v # <<>>
          THEN appendMessage(ran.w, "system", ran.out.v)
          ELSE ran.w
     ELSE askMistral(said, input)

\* data?.reply || 'No response'
ReplyOf(data) ==
  IF Truthy(Get(data, "reply")) THEN Get(data, "reply").v ELSE NoResponseText

\* askMistral after its awaits, for the request r and what fetch gave: a
\* response that is not OK with its text, an OK response with its JSON
\* body, an OK response whose body is not JSON, or a rejection.  The
\* replies of the model are strings.
afterFetch(w, r, a) ==
  LET i == TargetBubble(w, r)
      reply == ReplyOf(a.data)
  IN CASE a.kind = "notOk" ->
            [w EXCEPT !.bubbles[i].typing = FALSE,
                      !.bubbles[i].content = sanitize(ErrorPrefix \o a.text)]
       [] a.kind = "ok" ->
            [w EXCEPT !.convo.history =
                        Append(@, AssistantEntry(reply)),
                      !.bubbles[i] =
                        startTypingAnimation(
                          [@ EXCEPT !.typing = FALSE, !.fullText = reply],
                          reply)]
       [] a.kind \in {"badJson", "rejected"} ->
            [w EXCEPT !.bubbles[i].typing = FALSE,
                      !.bubbles[i].content = sanitize(NetworkErrorPrefix \o a.text)]

\* ------------------------------------------------- the chat widget: actions

\* toggleTerminal: the button or the close button is clicked.
ToggleTerminal ==
  /\ \/ convo.booted
     \/ terminal.active
     \/ /\ Len(bubbles) < MaxBubbles
        /\ Cardinality({i \in DOMAIN bubbles : bubbles[i].controller = "word"}) < MaxBoots
  /\ LET toggled == [Widget EXCEPT !.terminal.active = ~@]
     IN Becomes(IF toggled.terminal.active /\ ~toggled.convo.booted
                THEN displayBootMessage(toggled)
                ELSE toggled)
  /\ UNCHANGED <<relayVars, delivered, roleTyping, signal, debounced, profile>>

\* A timer of the word typing of bubble i fires.
WordTimer ==
  /\ \E i \in DOMAIN bubbles :
       /\ bubbles[i].controller = "word"
       /\ LET typed == [Widget EXCEPT !.bubbles[i] = WordStep(@)]
          IN Becomes(AfterListener(Widget, typed))
  /\ UNCHANGED <<relayVars, delivered, roleTyping, signal, debounced, profile>>

\* Enter is pressed in the input holding one of Values: the listener of the
\* input, then the listener of the document.
EnterKey(Values) ==
  /\ ~terminal.disabled
  /\ \E value \in Values :
       LET sent == AfterListener(Widget, submit(Widget, value))
           revealed == AfterListener(sent, skipAllTyping(sent))
       IN /\ Len(revealed.bubbles) <= MaxBubbles
          /\ Becomes(revealed)
  /\ UNCHANGED <<relayVars, delivered, roleTyping, signal, debounced, profile>>

\* The send button is clicked, the input holding one of Values.
SendClick(Values) ==
  /\ ~terminal.disabled
  /\ \E value \in Values :
       LET sent == AfterListener(Widget, submit(Widget, value))
       IN /\ Len(sent.bubbles) <= MaxBubbles
          /\ Becomes(sent)
  /\ UNCHANGED <<relayVars, delivered, roleTyping, signal, debounced, profile>>

\* The fetch of a request in flight settles with one of Answers.
FetchSettles(Answers) ==
  /\ inflight # {}
  /\ \E r \in inflight, a \in Answers :
       /\ Becomes(afterFetch([Widget EXCEPT !.inflight = @ \ {r}], r, a))
       /\ delivered' = [request |-> r, answer |-> a]
  /\ UNCHANGED <<relayVars, roleTyping, signal, debounced, profile>>

\* An animation frame of the character typing of a bubble, with one of
\* Chars characters due.
AnimationFrame(Chars) ==
  /\ \E i \in DOMAIN bubbles :
       /\ bubbles[i].raf
       /\ \E charsToAdd \in Chars :
            Becomes([Widget EXCEPT !.bubbles[i] = step(@, charsToAdd)])
  /\ UNCHANGED <<relayVars, delivered, roleTyping, signal, debounced, profile>>

\* A bubble of the chat that is being typed is clicked.
BubbleClick ==
  /\ \E i \in DOMAIN bubbles :
       /\ bubbles[i].attached
       /\ bubbles[i].controller # "none"
       /\ LET shown == [Widget EXCEPT !.bubbles[i] = skipBubbleTyping(@)]
          IN Becomes(AfterListener(Widget, shown))
  /\ UNCHANGED <<relayVars, delivered, roleTyping, signal, debounced, profile>>

\* A key is pressed anywhere else in the document.
DocumentKeydown ==
  /\ \E i \in DOMAIN bubbles :
       bubbles[i].attached /\ bubbles[i].typing /\ bubbles[i].controller # "none"
  /\ Becomes(AfterListener(Widget, skipAllTyping(Widget)))
  /\ UNCHANGED <<relayVars, delivered, roleTyping, signal, debounced, profile>>

\* ------------------------------------------------- the chat widget: inputs

\* What the user types: two questions, the second with a space before it
\* and a character sanitize rewrites, commands as typed by hand, and a
\* blank line.
Question1 == <<"h", "i", "?">>
Question2 == <<SP, "a", "<", "b">>
Questions == {Question1, Question2}
StopTyped == <<"S", "t", "o", "p", SP>>
TypedValues == Questions \cup {StopTyped, Clear, <<SP>>}

\* A JSON object with the given fields.
Obj(fields) == [t |-> "object", v |-> fields]

\* A reply of n characters, some of which sanitize rewrites.
LongText(n) ==
  [i \in 1..n |-> IF i % 5 = 0 THEN "<" ELSE IF i % 7 = 0 THEN NL ELSE "a"]

\* What fetch can give.
NotOk(text) == [kind |-> "notOk", data |-> Null, text |-> text]
Ok(data) == [kind |-> "ok", data |-> data, text |-> <<>>]
BadJson == [kind |-> "badJson", data |-> Null, text |-> <<"SyntaxError: Unexpected token '<'">>]
FetchRejected == [kind |-> "rejected", data |-> Null, text |-> <<"TypeError: Failed to fetch">>]

\* The body the relay sends with a reply.
ReplyBody(text) == Obj([reply |-> Str(text)])

\* The bodies of an OK response: the relay's, with and without a reply, and
\* the other shapes extractModelText reads.
ResponseBodies ==
  {ReplyBody(<<"r", "&", "1">>),
   ReplyBody(<<SP, "r">>),
   ReplyBody(<<>>),
   ReplyBody(<<"{", "a">>),
   Null,
   Obj([text |-> Str(<<"t">>)]),
   Obj([content |-> Obj([parts |-> Array(<<Str(<<"p">>), Obj([text |-> Str(<<"q">>)])>>)])]),
   Obj([choices |-> Array(<<Obj([message |-> Obj([content |-> Str(<<"m">>)])])>>)]),
   Obj([choices |-> Array(<<Obj([text |-> Str(<<"c">>)])>>)]),
   Obj([result |-> ReplyBody(<<"n">>)]),
   Obj([output |-> Str(<<"o">>)]),
   Obj([answer |-> Str(<<"w">>)])}

\* The failures of a request.
FailedAnswers == {NotOk(<<"{\"error\":\"HF_API_KEY missing\"}">>), BadJson, FetchRejected}

\* The answers of the relay as it is.
RelayAnswers == FailedAnswers \cup {Ok(ReplyBody(<<"r", "&", "1">>))}

\* The answers with every body.
AllAnswers == FailedAnswers \cup {Ok(body) : body \in ResponseBodies}

\* The answers with a reply around the length from which it is typed.
LongAnswers ==
  {Ok(ReplyBody(LongText(n))) :
     n \in (MinLengthForAnimation - 1)..(MinLengthForAnimation + MaxExtra)}

\* The characters a frame adds, Math.max(1, Math.floor(elapsed * 0.16)) at
\* the 160 characters per second of askMistral: a frame 100 ms after the
\* last one, and a frame 300 ms after it.
FrameChars == {16, 48}

\* ------------------------------------------------- the chat widget: runs

InitWidget == RelayIdle /\ BrowserStart

NextWidget ==
  \/ ToggleTerminal
  \/ WordTimer
  \/ EnterKey(TypedValues)
  \/ SendClick(TypedValues)
  \/ FetchSettles(RelayAnswers)
  \/ BubbleClick
  \/ DocumentKeydown

\* The widget with the relay's answers.
SpecWidget == InitWidget /\ [][NextWidget]_vars

TypeOK ==
  /\ Len(bubbles) <= MaxBubbles
  /\ \A r \in inflight : r.bubble \in DOMAIN bubbles

\* Every body with one question and the help command.
NextExtract ==
  \/ ToggleTerminal
  \/ WordTimer
  \/ EnterKey({Question1, Help})
  \/ SendClick({Question1, Help})
  \/ FetchSettles(AllAnswers)
  \/ BubbleClick
  \/ DocumentKeydown

\* The widget with every shape of body.
SpecExtract == InitWidget /\ [][NextExtract]_vars

\* ------------------------------------------------- the chat widget: properties

\* The roles of the history.
HistoryRoles == [i \in 1..Len(convo.history) |-> convo.history[i].role]

\* A step in which a question is submitted: a user bubble is added whose
\* text is no command.
QuestionSubmitted ==
  /\ Len(bubbles') > Len(bubbles)
  /\ bubbles'[Len(bubbles) + 1].role = "user"
  /\ toLowerCase(bubbles'[Len(bubbles) + 1].content) \notin CommandNames

\* A step in which the response of a request is handled.
ResponseHandled == inflight \ inflight' # {}

\* One step of the history, the responses of the kinds in Adding being
\* those said to add an entry.
HistoryStep(Adding) ==
  LET h == convo.history
      after == convo.history'
  IN /\ Len(after) >= Len(h)
     /\ SubSeq(after, 1, Len(h)) = h
     /\ IF QuestionSubmitted
        THEN \E r \in inflight' \ inflight :
               /\ sanitize(r.prompt) = bubbles'[Len(bubbles) + 1].content
               /\ after = Append(h, [role |-> "user", content |-> r.prompt])
               /\ r.history = after
        ELSE IF ResponseHandled
        THEN IF delivered'.answer.kind \in Adding
             THEN /\ Len(after) = Len(h) + 1
                  /\ after[Len(after)].role = "assistant"
             ELSE after = h
        ELSE after = h

\* C11 as stated: the history only grows; a submitted question adds one
\* user entry, which its request carries; every OK response adds one
\* assistant entry; a response that is not OK or a network error adds
\* nothing; nothing else changes the history.
C11_HistoryAppendOnly == [][HistoryStep({"ok", "badJson"})]_vars

\* C11, amended: as above, but an OK response adds its assistant entry only
\* when its body is JSON; an OK response whose body is not JSON adds
\* nothing.
C11_HistoryAppendOnlyJson == [][HistoryStep({"ok"})]_vars

\* C11's case: after an answered question, a second question got an OK
\* response that was not JSON.
C11_Witness ==
  /\ HistoryRoles = <<"user", "assistant", "user">>
  /\ delivered.answer.kind = "badJson"
  /\ inflight = {}

\* C12: for an OK response whose body carries text in a shape
\* extractModelText reads, the assistant bubble and the assistant entry of
\* the history hold the extracted text.
C12_ExtractedTextShown ==
  LET a == delivered.answer
      found == extractModelText(a.data)
      assistants == {i \in 1..Len(convo.history) : convo.history[i].role = "assistant"}
      last == CHOOSE i \in assistants : \A j \in assistants : j <= i
  IN (a.kind = "ok" /\ found # Null) =>
       /\ bubbles[delivered.request.bubble].content = sanitize(found.v)
       /\ assistants # {}
       /\ convo.history[last].content = found.v

\* A step in which 'stop' is entered.
StopEntered ==
  /\ Len(bubbles') > Len(bubbles)
  /\ bubbles'[Len(bubbles) + 1].role = "user"
  /\ toLowerCase(bubbles'[Len(bubbles) + 1].content) = Stop

\* C13: 'stop' entered while a request is in flight aborts it and shows
\* 'Stopping current request...'; 'No request in progress.' is shown only
\* when no request is in flight.
C13_StopAborts ==
  [][StopEntered =>
       LET shown == bubbles'[Len(bubbles) + 2].content
       IN /\ inflight # {} => (shown = Stopping /\ inflight' = {})
          /\ shown = NoRequestInProgress => inflight = {}]_vars

\* What a handled answer writes into the bubble, a long reply beginning
\* with nothing typed.
Rendered(a) ==
  CASE a.kind = "notOk" -> sanitize(ErrorPrefix \o a.text)
    [] a.kind = "ok" ->
         IF Len(ReplyOf(a.data)) <= MinLengthForAnimation
         THEN sanitize(ReplyOf(a.data)) ELSE <<>>
    [] OTHER -> sanitize(NetworkErrorPrefix \o a.text)

\* C18: a response is rendered into the placeholder bubble made for its own
\* question, the bubble after the one showing that question, and changes
\* no other bubble, in whatever order the responses arrive.
C18_OwnBubbleOnly ==
  [][ResponseHandled =>
       LET r == delivered'.request
       IN /\ r \in inflight \ inflight'
          /\ bubbles[r.bubble].role = "assistant"
          /\ bubbles[r.bubble].content = Thinking
          /\ bubbles[r.bubble - 1].role = "user"
          /\ bubbles[r.bubble - 1].content = sanitize(r.prompt)
          /\ bubbles'[r.bubble].content = Rendered(delivered'.answer)
          /\ ~bubbles'[r.bubble].typing
          /\ \A i \in DOMAIN bubbles : i # r.bubble => bubbles'[i] = bubbles[i]]_vars

\* C18's case: of two requests in flight the later one was answered first;
\* its bubble shows the answer and the earlier bubble still waits.
C18_Witness ==
  /\ delivered.answer.kind = "ok"
  /\ \E r \in inflight :
       /\ r.bubble < delivered.request.bubble
       /\ r.prompt # delivered.request.prompt
       /\ bubbles[r.bubble].content = Thinking
       /\ bubbles[delivered.request.bubble].content = Rendered(delivered.answer)

\* C19: an assistant entry follows a user entry, and whenever no request is
\* in flight the history alternates user, assistant, beginning with user.
C19_HistoryAlternates ==
  /\ \A i \in 1..Len(convo.history) :
       convo.history[i].role = "assistant" =>
         (i > 1 /\ convo.history[i - 1].role = "user")
  /\ inflight = {} =>
       \A i \in 1..Len(convo.history) :
         convo.history[i].role = IF i % 2 = 1 THEN "user" ELSE "assistant"

\* ------------------------------------------------- the typing animation

NextTyping ==
  \/ EnterKey({Question1})
  \/ SendClick({Question1})
  \/ FetchSettles(LongAnswers)
  \/ AnimationFrame(FrameChars)
  \/ BubbleClick
  \/ DocumentKeydown

\* The widget with replies around the length from which they are typed;
\* the browser keeps running the animation frames that are requested.
SpecTyping ==
  InitWidget /\ [][NextTyping]_vars /\ WF_vars(AnimationFrame(FrameChars))

\* The character animation of bubble i is running.
Animating(i) == i \in DOMAIN bubbles /\ bubbles[i].controller = "char"

\* Bubble i shows all of its reply, sanitized, and is not being typed.
ShownInFull(i) ==
  /\ i \in DOMAIN bubbles
  /\ bubbles[i].role = "assistant"
  /\ bubbles[i].controller = "none"
  /\ bubbles[i].fullText # <<>>
  /\ ~bubbles[i].textNode
  /\ bubbles[i].content = sanitize(bubbles[i].fullText)
  /\ ~bubbles[i].typing
  /\ ~bubbles[i].raf

\* While a reply is typed it is longer than 48 characters and its bubble
\* shows a prefix of it in a text node.
TypedPrefix ==
  \A i \in DOMAIN bubbles :
    Animating(i) =>
      /\ Len(bubbles[i].fullText) > MinLengthForAnimation
      /\ bubbles[i].textNode
      /\ bubbles[i].idx <= Len(bubbles[i].fullText)
      /\ bubbles[i].content = SubSeq(bubbles[i].fullText, 1, bubbles[i].idx)
      /\ bubbles[i].raf

\* A step of the typing: the text of a bubble being typed does not get
\* shorter, a bubble shown in full keeps what it shows, and a reply that
\* arrives is shown at once and without a frame if it has at most 48
\* characters, and begins to be typed if it has more.
TypingStep ==
  /\ \A i \in DOMAIN bubbles :
       /\ Animating(i) => Len(bubbles'[i].content) >= Len(bubbles[i].content)
       /\ ShownInFull(i) =>
            /\ bubbles'[i].content = bubbles[i].content
            /\ bubbles'[i].textNode = bubbles[i].textNode
            /\ bubbles'[i].typing = bubbles[i].typing
            /\ bubbles'[i].raf = bubbles[i].raf
  /\ (ResponseHandled /\ delivered'.answer.kind = "ok") =>
       LET i == delivered'.request.bubble
           reply == ReplyOf(delivered'.answer.data)
       IN IF Len(reply) <= MinLengthForAnimation
          THEN /\ bubbles'[i].content = sanitize(reply)
               /\ ~bubbles'[i].textNode
               /\ ~bubbles'[i].raf
               /\ ~bubbles'[i].typing
               /\ bubbles'[i].controller = "none"
          ELSE /\ bubbles'[i].content = <<>>
               /\ bubbles'[i].fullText = reply
               /\ bubbles'[i].raf
               /\ bubbles'[i].controller = "char"

\* C14: a reply of more than 48 characters is typed as a growing prefix and
\* its bubble comes to show the whole sanitized reply without the 'typing'
\* class, by the frames or by a skip, and then stays as it is; a reply of at
\* most 48 characters is shown at once with no frame requested.
C14_StreamingText ==
  /\ []TypedPrefix
  /\ [][TypingStep]_vars
  /\ \A i \in 1..(MaxBubbles + 1) : Animating(i) ~> ShownInFull(i)

\* C14's case: a reply of 49 characters or more was typed over several
\* frames and is now shown in full, and another is half typed.
C14_Witness ==
  \E i, j \in DOMAIN bubbles :
    /\ ShownInFull(i)
    /\ Len(bubbles[i].fullText) > MinLengthForAnimation
    /\ Animating(j)
    /\ bubbles[j].idx > 0
    /\ bubbles[j].idx < Len(bubbles[j].fullText)
    /\ bubbles[j].typing

\* ------------------------------------------------- the role typing effect

\* The handle setTimeout or requestAnimationFrame returns: one that is not
\* pending and is not the handle the program still holds.
FreshId(pending, held) ==
  CHOOSE n \in 1..(Cardinality(pending) + 2) :
    /\ n \notin pending \cup {held}
    /\ \A m \in 1..(n - 1) : m \in pending \cup {held}

\* tick of initRoleTyping, the timer id having fired.
tick(rt, id) ==
  LET current == roles[rt.idx + 1]
      typed == IF rt.charIndex + 1 < Len(current) THEN rt.charIndex + 1
               ELSE Len(current)
      deleted == IF rt.charIndex - 1 > 0 THEN rt.charIndex - 1 ELSE 0
      left == rt.timers \ {id}
      next == FreshId(left, rt.timeoutId)
  IN IF ~rt.deleting
     THEN [rt EXCEPT !.charIndex = typed,
                     !.textContent = SubSeq(current, 1, typed),
                     !.deleting = (typed >= Len(current)),
                     !.timeoutId = next,
                     !.timers = left \cup {next}]
     ELSE [rt EXCEPT !.charIndex = deleted,
                     !.textContent = SubSeq(current, 1, deleted),
                     !.deleting = (deleted # 0),
                     !.idx = IF deleted = 0 THEN (rt.idx + 1) % Len(roles) ELSE @,
                     !.timeoutId = next,
                     !.timers = left \cup {next}]

\* The visibilitychange listener of initRoleTyping, document.hidden being
\* rt.hidden.
roleVisibility(rt) ==
  IF rt.hidden /\ rt.timeoutId # 0
  THEN [rt EXCEPT !.timers = @ \ {rt.timeoutId}, !.timeoutId = 0]
  ELSE IF ~rt.hidden /\ rt.timeoutId = 0
  THEN LET next == FreshId(rt.timers, 0)
       IN [rt EXCEPT !.timeoutId = next, !.timers = @ \cup {next}]
  ELSE rt

\* A timer of the role typing fires.
RoleTick ==
  /\ \E id \in roleTyping.timers : roleTyping' = tick(roleTyping, id)
  /\ UNCHANGED <<relayVars, widgetVars, signal, debounced, profile>>

\* The page is hidden or shown: document.hidden changes and the listener,
\* if there is one, runs.
RoleVisibilityChange ==
  /\ LET changed == [roleTyping EXCEPT !.hidden = ~@]
     IN roleTyping' = IF roleTyping.prefersReduced THEN changed
                      ELSE roleVisibility(changed)
  /\ UNCHANGED <<relayVars, widgetVars, signal, debounced, profile>>

InitRole ==
  /\ RelayIdle
  /\ WidgetStart
  /\ RoleTypingStart(BOOLEAN, BOOLEAN)
  /\ SignalStart({FALSE}, {FALSE})
  /\ DebouncedStart
  /\ ProfileStart({EmptyPage})

NextRole ==
  \/ RoleTick
  \/ RoleVisibilityChange

\* The role typing on a page that is loaded shown or hidden.
SpecRole == InitRole /\ [][NextRole]_vars

\* The state of the typing is well formed: charIndex within the current
\* role, a prefix of it shown, and at most one timer pending.
RoleTypingWellFormed ==
  LET current == roles[roleTyping.idx + 1]
  IN ~roleTyping.prefersReduced =>
       /\ roleTyping.idx \in 0..(Len(roles) - 1)
       /\ 0 <= roleTyping.charIndex
       /\ roleTyping.charIndex <= Len(current)
       /\ roleTyping.textContent = SubSeq(current, 1, Len(roleTyping.textContent))
       /\ Cardinality(roleTyping.timers) <= 1

\* A step of the typing: idx moves only to the next role, and only with
\* the text deleted; showing the page again changes nothing of idx,
\* charIndex and deleting and leaves one timer pending.
RoleTypingStep ==
  ~roleTyping.prefersReduced =>
    /\ roleTyping'.idx # roleTyping.idx =>
         /\ roleTyping'.idx = (roleTyping.idx + 1) % Len(roles)
         /\ roleTyping.deleting
         /\ roleTyping'.charIndex = 0
         /\ roleTyping'.textContent = <<>>
    /\ (roleTyping.hidden /\ ~roleTyping'.hidden) =>
         /\ roleTyping'.idx = roleTyping.idx
         /\ roleTyping'.charIndex = roleTyping.charIndex
         /\ roleTyping'.deleting = roleTyping.deleting
         /\ roleTyping'.textContent = roleTyping.textContent
         /\ Cardinality(roleTyping'.timers) = 1

\* No timer of the typing is pending while the page is hidden.
NoTickWhileHidden ==
  (~roleTyping.prefersReduced /\ roleTyping.hidden) => roleTyping.timers = {}

\* C20: with reduced motion off, charIndex stays within roles[idx], the
\* text shown is a prefix of roles[idx], idx advances cyclically and only
\* when the text is deleted, at most one tick timer is pending, none is
\* pending while the page is hidden, and showing the page again resumes
\* from the same idx, charIndex and deleting.
C20_RoleTyping ==
  /\ []RoleTypingWellFormed
  /\ []NoTickWhileHidden
  /\ [][RoleTypingStep]_vars

\* The claim without its sentence on the hidden page.
RoleTypingOtherwise ==
  /\ []RoleTypingWellFormed
  /\ [][RoleTypingStep]_vars

\* ------------------------------------------------- the canvas animation

\* spawnPulsePath: a pulse more unless the limit of the device is reached,
\* one on a narrow window and two on a wide one.
spawnPulsePath(s, isMobile) ==
  IF s.prefersReduced \/ s.pulses >= (IF isMobile THEN 1 ELSE 2) THEN s
  ELSE [s EXCEPT !.pulses = @ + 1]

\* scheduleNextSpawn, the timers in left being pending.
scheduleNextSpawn(s, left) ==
  IF s.prefersReduced THEN [s EXCEPT !.timers = left]
  ELSE LET next == FreshId(left, s.spawnTimer)
       IN [s EXCEPT !.spawnTimer = next, !.timers = left \cup {next}]

\* handleVisibility schedules a spawn when showing the page.
SpawnNeededAlways(s) == ~s.prefersReduced
SpawnNeeded(s) == s.spawnTimer = 0 /\ ~s.prefersReduced

\* handleVisibility, document.hidden being s.hidden.
handleVisibility(s) ==
  IF s.hidden
  THEN [s EXCEPT !.running = FALSE,
                 !.timers = @ \ {s.spawnTimer}, !.spawnTimer = 0,
                 !.frames = @ \ {s.rafId}, !.rafId = 0]
  ELSE LET shown == [s EXCEPT !.running = TRUE]
           spawning == IF SpawnNeeded(shown)
                       THEN scheduleNextSpawn(shown, shown.timers)
                       ELSE shown
       IN IF spawning.rafId = 0
          THEN LET next == FreshId(spawning.frames, 0)
               IN [spawning EXCEPT !.rafId = next, !.frames = @ \cup {next}]
          ELSE spawning

\* canvas._signalCleanup of the animated canvas.
signalCleanup(s) ==
  [s EXCEPT !.listening = FALSE,
            !.timers = @ \ {s.spawnTimer},
            !.frames = @ \ {s.rafId},
            !.pulses = 0,
            !.cleanedUp = TRUE]

\* The spawn timer fires, on a narrow or a wide window.
SpawnTimerFires ==
  /\ \E id \in signal.timers, isMobile \in BOOLEAN :
       signal' = scheduleNextSpawn(spawnPulsePath(signal, isMobile),
                                   signal.timers \ {id})
  /\ UNCHANGED <<relayVars, widgetVars, roleTyping, debounced, profile>>

\* animate: an animation frame runs; pulses that have faded are removed and
\* the next frame is requested.
CanvasFrame ==
  /\ \E id \in signal.frames, left \in 0..signal.pulses :
       LET next == FreshId(signal.frames \ {id}, signal.rafId)
       IN signal' = [signal EXCEPT !.pulses = left,
                                   !.rafId = next,
                                   !.frames = (@ \ {id}) \cup {next}]
  /\ UNCHANGED <<relayVars, widgetVars, roleTyping, debounced, profile>>

\* The page is hidden or shown; handleVisibility runs while it is attached.
CanvasVisibilityChange ==
  /\ LET changed == [signal EXCEPT !.hidden = ~@, !.changed = TRUE]
     IN signal' = IF signal.listening THEN handleVisibility(changed)
                  ELSE changed
  /\ UNCHANGED <<relayVars, widgetVars, roleTyping, debounced, profile>>

\* The window is resized: the debounced handleResize sets its timer anew.
CanvasResize ==
  /\ signal.listening
  /\ LET left == signal.resizeTimers \ {signal.resizeTimeout}
         next == FreshId(left, signal.resizeTimeout)
     IN signal' = [signal EXCEPT !.resizeTimeout = next,
                                 !.resizeTimers = left \cup {next}]
  /\ UNCHANGED <<relayVars, widgetVars, roleTyping, debounced, profile>>

\* The timer of handleResize fires: the graph is rebuilt and the pulses are
\* dropped.
CanvasResizeTimerFires ==
  /\ \E id \in signal.resizeTimers :
       signal' = [signal EXCEPT !.resizeTimers = @ \ {id}, !.pulses = 0]
  /\ UNCHANGED <<relayVars, widgetVars, roleTyping, debounced, profile>>

\* The cleanup handler is called, as a second initialisation does.
CanvasCleanup ==
  /\ ~signal.cleanedUp
  /\ signal' = signalCleanup(signal)
  /\ UNCHANGED <<relayVars, widgetVars, roleTyping, debounced, profile>>

InitCanvas ==
  /\ RelayIdle
  /\ WidgetStart
  /\ RoleTypingStart({FALSE}, {FALSE})
  /\ SignalStart(BOOLEAN, {FALSE})
  /\ DebouncedStart
  /\ ProfileStart({EmptyPage})

NextCanvas ==
  \/ SpawnTimerFires
  \/ CanvasFrame
  \/ CanvasVisibilityChange
  \/ CanvasResize
  \/ CanvasResizeTimerFires
  \/ CanvasCleanup

\* The animated canvas on a page that is loaded shown or hidden.
SpecCanvas == InitCanvas /\ [][NextCanvas]_vars

\* C15: with reduced motion off there is at most one spawn timer and at
\* most one animation frame pending; none of either from a change to hidden
\* until the next change to visible; one of each after a change to visible;
\* and none once the cleanup handler has run.
C15_OneTimerOneFrame ==
  ~signal.prefersReduced =>
    /\ Cardinality(signal.timers) <= 1
    /\ Cardinality(signal.frames) <= 1
    /\ (signal.changed /\ signal.hidden) =>
         (signal.timers = {} /\ signal.frames = {})
    /\ (signal.changed /\ ~signal.hidden /\ ~signal.cleanedUp) =>
         (Cardinality(signal.timers) = 1 /\ Cardinality(signal.frames) = 1)
    /\ signal.cleanedUp => (signal.timers = {} /\ signal.frames = {})

\* C15's case: the page was loaded hidden and then shown, timers and frames
\* have run, and one of each is pending.
C15_Witness ==
  /\ ~signal.prefersReduced
  /\ signal.changed
  /\ ~signal.hidden
  /\ ~signal.cleanedUp
  /\ signal.pulses = 2
  /\ signal.spawnTimer \in signal.timers
  /\ signal.rafId \in signal.frames
  /\ signal.spawnTimer > 1

\* ------------------------------------------------- debounce

\* wait, in the steps of time of the model.
Wait == 2
\* The calls of the debounced listener in a run.
MaxCalls == 3

\* The arguments a call is made with.
CallArgs == {"a", "b"}

\* clearTimeout: the timer with that id is no longer pending.
clearTimeoutKeeps(timers, id) == timers
clearTimeout(timers, id) == {t \in timers : t.id # id}

\* The listener debounce returns, called with args.
debouncedCall(d, args) ==
  LET left == clearTimeout(d.timers, d.timeout)
      next == FreshId({t.id : t \in left}, d.timeout)
  IN [d EXCEPT !.timeout = next,
               !.timers = left \cup {[id |-> next, args |-> args, age |-> 0]},
               !.sinceCall = 0,
               !.calls = Append(@, args)]

\* A step of time, counted up to wait.
Older(n) == IF n < Wait THEN n + 1 ELSE Wait

\* The debounced listener is called.
DebouncedCall ==
  /\ Len(debounced.calls) < MaxCalls
  /\ \E args \in CallArgs : debounced' = debouncedCall(debounced, args)
  /\ UNCHANGED <<relayVars, widgetVars, roleTyping, signal, profile>>

\* Time passes.
TimePasses ==
  /\ debounced.sinceCall < Wait \/ \E t \in debounced.timers : t.age < Wait
  /\ debounced' = [debounced EXCEPT
       !.sinceCall = Older(@),
       !.timers = {[t EXCEPT !.age = Older(@)] : t \in debounced.timers}]
  /\ UNCHANGED <<relayVars, widgetVars, roleTyping, signal, profile>>

\* A timer that is due fires and calls func with the arguments of its
\* call; the run records them, the number of calls made so far and the
\* time since the last of them.
DebounceTimerFires ==
  /\ \E t \in debounced.timers :
       /\ t.age >= Wait
       /\ debounced' = [debounced EXCEPT
            !.timers = @ \ {t},
            !.runs = Append(@, [args |-> t.args,
                                after |-> Len(debounced.calls),
                                quiet |-> debounced.sinceCall])]
  /\ UNCHANGED <<relayVars, widgetVars, roleTyping, signal, profile>>

InitDebounce == RelayIdle /\ BrowserStart

NextDebounce ==
  \/ DebouncedCall
  \/ TimePasses
  \/ DebounceTimerFires

\* A debounced listener; time goes on and a timer that is due fires.
SpecDebounce ==
  /\ InitDebounce
  /\ [][NextDebounce]_vars
  /\ WF_vars(TimePasses)
  /\ WF_vars(DebounceTimerFires)

\* At most one timer is pending; func has run only wait after the last call
\* before it, with the arguments of that call, and once for it.
DebounceSafe ==
  /\ Cardinality(debounced.timers) <= 1
  /\ \A i \in 1..Len(debounced.runs) :
       LET run == debounced.runs[i]
       IN /\ run.quiet >= Wait
          /\ run.after >= 1
          /\ run.args = debounced.calls[run.after]
          /\ \A j \in 1..Len(debounced.runs) :
               debounced.runs[j].after = run.after => j = i

\* func has run for the burst that ended with the n-th call.
RunAfter(n) == \E i \in 1..Len(debounced.runs) : debounced.runs[i].after = n

\* C16: a debounced listener has at most one pending timer; func runs only
\* when wait has passed with no further call, so a burst of calls causes
\* exactly one invocation, with the arguments of the last call of the burst.
C16_Debounce ==
  /\ []DebounceSafe
  /\ \A n \in 1..(MaxCalls + 1) :
       (Len(debounced.calls) = n) ~> (Len(debounced.calls) > n \/ RunAfter(n))

\* C16's case: a burst of two calls, then a third call after func has run
\* for the burst, and func has run for that one too.
C16_Witness ==
  /\ Len(debounced.calls) = 3
  /\ Len(debounced.runs) = 2
  /\ debounced.runs[1].after = 2
  /\ debounced.runs[1].args = debounced.calls[2]
  /\ debounced.calls[1] # debounced.calls[2]
  /\ debounced.runs[2].after = 3
  /\ debounced.timers = {}
====
